---- MODULE Spec2Model ----
(***************************************************************************)
(* Model of the task ingestion / assignment pipeline and of the task       *)
(* lifecycle of the TaskManagementApp backend                              *)
(* (backend/controllers/taskController.js, agentController.js, the Task    *)
(* and Agent schemas, routes/taskRoutes.js, middleware/authMiddleware.js). *)
(*                                                                         *)
(* The database is the pair (agents, tasks): two collections kept in       *)
(* insertion order.  Every request handler is one action, run from         *)
(* the request's arrival to its response.  `last` is the exchange in       *)
(* flight: the request the handler served and the response it wrote (and,  *)
(* in `found`, the status of the task findById gave the handler); the      *)
(* action Deliver hands the response to the client and clears it, and the  *)
(* next request is served after that.                                      *)
(*                                                                         *)
(* `calls` holds the requests that are served step by step, one database   *)
(* operation at a time, so that they interleave.  `notifications` and      *)
(* `unreadCount` are the state of the client's NotificationProvider        *)
(* (frontend/admin-app/src/context/NotificationContext.jsx), and `issued`  *)
(* counts the notification ids handed out.                                 *)
(***************************************************************************)
EXTENDS Integers, Sequences, FiniteSets, TLC

VARIABLES agents, tasks, last, calls, notifications, unreadCount, issued

vars == <<agents, tasks, last, calls, notifications, unreadCount, issued>>

\* the state of the client's NotificationProvider
bell == <<notifications, unreadCount, issued>>

(***************************************************************************)
(* Bounds of the model.                                                    *)
(***************************************************************************)
\* longest uploaded file, in data rows
MaxRows == 3
\* most tasks the tasks collection is let to hold in the lifecycle runs
MaxTasks == 2
\* most tasks the tasks collection is let to hold in the commit runs
MaxStored == 3
\* longest confirm payload
MaxBatch == 2
\* most tasks the tasks collection is let to hold in the interleaved runs
MaxRaced == 1
\* most notification ids handed out
MaxIssued == 4
\* most notifications the list keeps: 50 in the source, scaled down
MaxKept == 3
\* most tasks the tasks collection is let to hold in the repeated-commit runs
MaxConfirmed == 4

(***************************************************************************)
(* JavaScript values.  A string is a sequence of one-character strings.    *)
(***************************************************************************)
Undef == [t |-> "undefined", s |-> <<>>, n |-> 0]
Str(s) == [t |-> "string", s |-> s, n |-> 0]
Num(n) == [t |-> "number", s |-> <<>>, n |-> n]

\* JavaScript truthiness of a value: undefined, "" and 0 are falsy
Truthy(v) ==
    CASE v.t = "undefined" -> FALSE
      [] v.t = "string" -> v.s # <<>>
      [] v.t = "number" -> v.n # 0

Digits == <<"0", "1", "2", "3", "4", "5", "6", "7", "8", "9">>

RECURSIVE NumToStr(_)
NumToStr(n) ==
    IF n < 10 THEN <<Digits[n + 1]>>
    ELSE NumToStr(n \div 10) \o <<Digits[(n % 10) + 1]>>

\* String(v) of a defined value
ToStr(v) == IF v.t = "number" THEN NumToStr(v.n) ELSE v.s

IsSpace(c) == c = " "

RECURSIVE TrimStart(_)
TrimStart(s) ==
    IF s # <<>> /\ IsSpace(Head(s)) THEN TrimStart(Tail(s)) ELSE s

RECURSIVE TrimEnd(_)
TrimEnd(s) ==
    IF s # <<>> /\ IsSpace(s[Len(s)]) THEN TrimEnd(SubSeq(s, 1, Len(s) - 1)) ELSE s

\* String.prototype.trim
Trim(s) == TrimEnd(TrimStart(s))

(***************************************************************************)
(* Identities.  An ObjectId is a string; None is an absent reference,      *)
(* GhostId a well-formed ObjectId that names no agent, BadId a string that *)
(* is no ObjectId.                                                         *)
(***************************************************************************)
None == "undefined"
GhostId == "W9"
BadId == "not-an-id"

\* the agents an admin can register, in the order their ids are generated
AgentPool ==
    << [_id |-> "W1", name |-> "n1", email |-> "e1"],
       [_id |-> "W2", name |-> "n2", email |-> "e2"],
       [_id |-> "W3", name |-> "n3", email |-> "e3"] >>

AdminUser == [id |-> "A0", role |-> "admin"]
AgentUser(a) == [id |-> a._id, role |-> "agent"]

\* the callers holding a token: the admin, and every registered agent
Callers == {AdminUser} \cup {AgentUser(agents[i]) : i \in DOMAIN agents}

AgentIdsOf(as) == {as[i]._id : i \in DOMAIN as}

(***************************************************************************)
(* The record of the last request served and of its response.  A count of  *)
(* -1 is a body that carries no count; seen is the ids of the tasks a      *)
(* read returned.                                                          *)
(***************************************************************************)
NoLast ==
    [op |-> "none", code |-> 0, message |-> "", user |-> AdminUser, route |-> "",
     kind |-> "", rows |-> <<>>, draft |-> <<>>, total |-> 0,
     payload |-> <<>>, count |-> -1,
     taskId |-> 0, status |-> "", newAgentId |-> None, found |-> "",
     seen |-> {}]

\* no exchange is in flight: the server is ready for the next request
Idle == last.op = "none"

\* res.status(..).json(..): the response leaves the server
Deliver ==
    /\ ~Idle
    /\ UNCHANGED <<calls, bell>>
    /\ last' = NoLast
    /\ UNCHANGED <<agents, tasks>>

\* a middleware that lets every authenticated caller through
requireRoleAny(role, user) == user.role \in {"admin", "agent"}

\* requireRole(role) of authMiddleware.js: the request goes on only for that role
requireRole(role, user) == user.role = role

\* the message of requireRole's 403: `only ${role}s can access this`
OnlyRole(role) ==
    IF role = "admin" THEN "only admins can access this"
    ELSE "only agents can access this"

\* the two requests that are served step by step at the same time
Slots == {"first", "second"}

\* a slot that holds no request.  pc is where the handler stands: at "save"
\* or "parse" it awaits a database write or the end of the CSV stream, at
\* "done" it has answered; doc is the document findById gave it, snapshot the
\* list Agent.find() gave it
NoCall ==
    [pc |-> "free", op |-> "", user |-> AdminUser, route |-> "", taskId |-> 0,
     status |-> "", newAgentId |-> None, doc |-> <<>>, file |-> <<>>,
     snapshot |-> <<>>, code |-> 0, message |-> "", draft |-> <<>>]

Init ==
    /\ agents = <<>>
    /\ tasks = <<>>
    /\ last = NoLast
    /\ calls = [c \in Slots |-> NoCall]
    /\ notifications = <<>>
    /\ unreadCount = 0
    /\ issued = 0

(***************************************************************************)
(* POST /api/agents: addAgent.                                             *)
(***************************************************************************)
addAgent(user, email, pool) ==
    /\ Len(agents) < Len(pool)
    /\ IF ~requireRole("admin", user)
       THEN /\ last' = [NoLast EXCEPT !.op = "addAgent", !.code = 403, !.user = user,
                                      !.message = OnlyRole("admin")]
            /\ UNCHANGED <<agents, tasks>>
       ELSE IF \E i \in DOMAIN agents : agents[i].email = email
       THEN /\ last' = [NoLast EXCEPT !.op = "addAgent", !.code = 400, !.user = user,
                                      !.message = "Agent already exists"]
            /\ UNCHANGED <<agents, tasks>>
       ELSE /\ agents' = Append(agents, pool[Len(agents) + 1])
            /\ last' = [NoLast EXCEPT !.op = "addAgent", !.code = 201, !.user = user]
            /\ UNCHANGED tasks

AddAgent(pool) ==
    /\ Idle
    /\ UNCHANGED <<calls, bell>>
    /\ \E user \in Callers :
          \E i \in 1..(Len(agents) + 1) :
              /\ i <= Len(pool)
              /\ addAgent(user, pool[i].email, pool)

(***************************************************************************)
(* POST /api/tasks/draft-upload: draftUpload.                              *)
(* An uploaded file is its declared mimetype and the rows the tabular      *)
(* library (csv-parser, xlsx.utils.sheet_to_json) delivers: one object per *)
(* data row, keyed by the header names.  A column a row has no cell for is *)
(* undefined in its object.  csv-parser delivers strings only;             *)
(* sheet_to_json delivers numbers for numeric cells.                       *)
(***************************************************************************)
XlsxType == "application/vnd.openxmlformats-officedocument.spreadsheetml.sheet"
XlsType == "application/vnd.ms-excel"
CsvType == "text/csv"

Row(f, p, n, x) == [FirstName |-> f, Phone |-> p, Notes |-> n, Email |-> x]

\* rows either library can deliver
CommonRows ==
    { Row(Str(<<" ", "a">>), Str(<<"5", " ">>), Undef, Undef),
      Row(Str(<<"b">>), Str(<<"6">>), Str(<<" ", "n", " ">>), Str(<<"x">>)),
      Row(Str(<<" ">>), Str(<<"5">>), Undef, Undef),
      Row(Undef, Str(<<"5">>), Str(<<"n">>), Undef),
      Row(Str(<<"a">>), Undef, Undef, Str(<<"x">>)),
      Row(Str(<<"a">>), Str(<<" ">>), Str(<<" ">>), Undef) }

CsvRows ==
    CommonRows \cup
    { Row(Str(<<"a">>), Str(<<>>), Undef, Undef),
      Row(Str(<<"b">>), Str(<<"0">>), Str(<<>>), Undef) }

XlsxRows ==
    CommonRows \cup
    { Row(Str(<<"a">>), Num(0), Undef, Undef),
      Row(Str(<<"b">>), Num(70), Num(0), Undef) }

RowsOfKind(kind) == IF kind = CsvType THEN CsvRows ELSE XlsxRows

SeqsUpTo(S, n) == UNION {[1..k -> S] : k \in 0..n}

\* the files of up to n rows a caller can upload: none, or a file multer's
\* fileFilter lets in
FilesUpTo(n) ==
    {[present |-> FALSE, mimetype |-> "", rows |-> <<>>]} \cup
    UNION { {[present |-> TRUE, mimetype |-> kind, rows |-> rs] :
                rs \in SeqsUpTo(RowsOfKind(kind), n)} :
            kind \in {CsvType, XlsxType, XlsType} }

Files == FilesUpTo(MaxRows)

\* the row test of both branches: if (FirstName && Phone)
RowAccepted(row) == Truthy(row.FirstName) /\ Truthy(row.Phone)

\* the object the spreadsheet branch pushes for an accepted row
XlsxRecord(row) ==
    [firstName |-> Trim(ToStr(row.FirstName)),
     phone |-> Trim(ToStr(row.Phone)),
     notes |-> IF Truthy(row.Notes) THEN Trim(ToStr(row.Notes)) ELSE <<>>]

\* the object the CSV branch pushes for an accepted row: Notes?.trim() || ''
CsvRecord(row) ==
    [firstName |-> Trim(row.FirstName.s),
     phone |-> Trim(row.Phone.s),
     notes |-> IF row.Notes.t = "undefined" THEN <<>> ELSE Trim(row.Notes.s)]

RECURSIVE ParseRows(_, _)
ParseRows(rows, kind) ==
    IF rows = <<>> THEN <<>>
    ELSE LET rest == ParseRows(Tail(rows), kind)
             row == Head(rows)
         IN IF RowAccepted(row)
            THEN <<IF kind = CsvType THEN CsvRecord(row) ELSE XlsxRecord(row)>> \o rest
            ELSE rest

\* a pairing that gives every row to the first worker
PickAgentFirst(as, index) == as[1]

\* a slip of the index: the pairing starts one worker late
PickAgentShifted(as, index) == as[((index + 1) % Len(as)) + 1]

\* agents[index % agents.length], index counted from 0
PickAgent(as, index) == as[(index % Len(as)) + 1]

\* results.map((task, index) => ({...task, agentId, assignedTo, draftAssignedTo}))
MakeDraft(results, as) ==
    [k \in 1..Len(results) |->
        LET agent == PickAgent(as, k - 1)
        IN [firstName |-> results[k].firstName,
            phone |-> results[k].phone,
            notes |-> results[k].notes,
            agentId |-> agent._id,
            assignedTo |-> agent._id,
            draftAssignedTo |-> [id |-> agent._id, name |-> agent.name,
                                 email |-> agent.email]]]

\* what a handler answers: res.status(code).json({message, draft})
Answer(code, message, draft) == [code |-> code, message |-> message, draft |-> draft]

\* a handler that looks for workers only once rows have been accepted
draftAnswerLate(as, file) ==
    IF ~file.present THEN Answer(400, "No file uploaded", <<>>)
    ELSE IF ParseRows(file.rows, file.mimetype) = <<>> THEN Answer(200, "", <<>>)
    ELSE IF Len(as) = 0 THEN Answer(400, "No agents available", <<>>)
    ELSE Answer(200, "", MakeDraft(ParseRows(file.rows, file.mimetype), as))

\* the answer of draftUpload to a request that passed requireRole, over the
\* agents Agent.find() gave it
draftAnswer(as, file) ==
    IF ~file.present THEN Answer(400, "No file uploaded", <<>>)
    ELSE IF Len(as) = 0 THEN Answer(400, "No agents available", <<>>)
    ELSE IF file.mimetype \in {XlsxType, XlsType, CsvType}
    THEN Answer(200, "", MakeDraft(ParseRows(file.rows, file.mimetype), as))
    ELSE Answer(400, "Unsupported file type", <<>>)

\* an upload that saves its draft as tasks
TasksAfterUploadSaving(coll, draft) ==
    coll \o [k \in DOMAIN draft |->
                [firstName |-> draft[k].firstName, phone |-> draft[k].phone,
                 notes |-> draft[k].notes, agentId |-> draft[k].agentId,
                 assignedTo |-> draft[k].assignedTo,
                 status |-> "pending", isFinalized |-> FALSE]]

\* the tasks collection after draftUpload: the file is held in memory
\* (multer.memoryStorage), the draft in the results array, and the handler
\* calls no write of Task
TasksAfterUpload(coll, draft) == coll

draftUpload(user, file) ==
    LET req == [NoLast EXCEPT !.op = "draftUpload", !.user = user,
                              !.kind = file.mimetype, !.rows = file.rows]
        answer == draftAnswer(agents, file)
    IN /\ UNCHANGED agents
       /\ IF ~requireRole("admin", user)
          THEN /\ last' = [req EXCEPT !.code = 403, !.message = OnlyRole("admin")]
               /\ UNCHANGED tasks
          ELSE /\ last' = [req EXCEPT !.code = answer.code,
                                      !.message = answer.message,
                                      !.draft = answer.draft,
                                      !.total = Len(answer.draft)]
               /\ tasks' = TasksAfterUpload(tasks, answer.draft)

DraftUpload(files) ==
    /\ Idle
    /\ UNCHANGED <<calls, bell>>
    /\ \E user \in Callers : \E file \in files : draftUpload(user, file)

(***************************************************************************)
(* The upload pipeline alone: agents are registered and files uploaded.    *)
(***************************************************************************)
NextDraft ==
    \/ AddAgent(AgentPool)
    \/ DraftUpload(Files)
    \/ Deliver

SpecDraft == Init /\ [][NextDraft]_vars

(***************************************************************************)
(* The Task schema and Task.insertMany.                                    *)
(***************************************************************************)
\* the enum of the schema's status path
AllowedStatuses == {"pending", "in-progress", "completed", "failed"}

\* whether a value casts to the ObjectId of a schema path (an absent one is left unset)
CastsToObjectId(id) == id # BadId

\* a required check that looks only for an absent value
RequiredStringLax(v) == v.t # "undefined"

\* a String path with required: true rejects an absent value and the empty string
RequiredStringOk(v) == v.t # "undefined" /\ ToStr(v) # <<>>

\* the schema validation of one document handed to insertMany
TaskValid(doc) ==
    /\ RequiredStringOk(doc.firstName)
    /\ RequiredStringOk(doc.phone)
    /\ CastsToObjectId(doc.agentId)
    /\ CastsToObjectId(doc.assignedTo)
    /\ doc.status \in AllowedStatuses

\* the stored document: every path cast to its schema type
Stored(doc) ==
    [firstName |-> ToStr(doc.firstName),
     phone |-> ToStr(doc.phone),
     notes |-> ToStr(doc.notes),
     agentId |-> doc.agentId,
     assignedTo |-> doc.assignedTo,
     status |-> doc.status,
     isFinalized |-> doc.isFinalized]

RECURSIVE ValidOnes(_)
ValidOnes(docs) ==
    IF docs = <<>> THEN <<>>
    ELSE (IF TaskValid(Head(docs)) THEN <<Stored(Head(docs))>> ELSE <<>>)
            \o ValidOnes(Tail(docs))

\* insertMany as { ordered: false } would run it: the valid documents are
\* written, the invalid ones reported
InsertManyUnordered(coll, docs) ==
    [ok |-> \A k \in DOMAIN docs : TaskValid(docs[k]),
     coll |-> coll \o ValidOnes(docs)]

\* an insert that skips the documents the collection already holds
InsertManyDedup(coll, docs) ==
    IF \A k \in DOMAIN docs : TaskValid(docs[k])
    THEN [ok |-> TRUE,
          coll |-> coll \o SelectSeq([k \in DOMAIN docs |-> Stored(docs[k])],
                                     LAMBDA d : \A i \in DOMAIN coll : coll[i] # d)]
    ELSE [ok |-> FALSE, coll |-> coll]

\* Task.insertMany(docs), ordered: every document is validated first, and one
\* invalid document rejects the call before anything is written
InsertMany(coll, docs) ==
    IF \A k \in DOMAIN docs : TaskValid(docs[k])
    THEN [ok |-> TRUE, coll |-> coll \o [k \in DOMAIN docs |-> Stored(docs[k])]]
    ELSE [ok |-> FALSE, coll |-> coll]

(***************************************************************************)
(* POST /api/tasks/confirm-draft: confirmDraft.  The body's tasks value is *)
(* a list of entries, or no list at all.  An entry is a JSON object (or    *)
(* null): the record fields, the draft's worker summary (draftId is        *)
(* draftAssignedTo?.id), the two worker references, and whatever status    *)
(* and isFinalized the client sent along.                                  *)
(***************************************************************************)
Entry(f, p, n, d, a, t) ==
    [isNull |-> FALSE, firstName |-> f, phone |-> p, notes |-> n,
     draftId |-> d, agentId |-> a, assignedTo |-> t,
     status |-> "pending", isFinalized |-> FALSE]

NullEntry == [Entry(Undef, Undef, Undef, None, None, None) EXCEPT !.isNull = TRUE]

\* a draft entry sent back as the upload returned it, for worker w
DraftEntry(f, p, w) == Entry(Str(f), Str(p), Str(<<>>), w, w, w)

\* task.draftAssignedTo?.id || other
IdOr(draftId, other) == IF draftId # None THEN draftId ELSE other

\* a mapping that passes the entry's own status and isFinalized on
ProcessedAsSent(e) ==
    [firstName |-> e.firstName,
     phone |-> e.phone,
     notes |-> IF Truthy(e.notes) THEN e.notes ELSE Str(<<>>),
     agentId |-> IdOr(e.draftId, e.agentId),
     assignedTo |-> IdOr(e.draftId, e.assignedTo),
     status |-> e.status,
     isFinalized |-> e.isFinalized]

\* the element of processedTasks made from one entry
Processed(e) ==
    [firstName |-> e.firstName,
     phone |-> e.phone,
     notes |-> IF Truthy(e.notes) THEN e.notes ELSE Str(<<>>),
     agentId |-> IdOr(e.draftId, e.agentId),
     assignedTo |-> IdOr(e.draftId, e.assignedTo),
     status |-> "pending",
     isFinalized |-> FALSE]

\* the body of a confirm request: tasks is an array (isArray) of entries, or is not
Bodies(entries, n) ==
    {[isArray |-> FALSE, tasks |-> <<>>]} \cup
    {[isArray |-> TRUE, tasks |-> es] : es \in SeqsUpTo(entries, n)}

\* a test that looks only for an empty list
NoTasksEmptyOnly(body) == body.isArray /\ Len(body.tasks) = 0

\* !Array.isArray(tasks) || tasks.length === 0
NoTasks(body) == ~body.isArray \/ Len(body.tasks) = 0

confirmDraft(user, body, cap) ==
    LET req == [NoLast EXCEPT !.op = "confirmDraft", !.user = user,
                              !.payload = body.tasks]
    IN /\ Len(tasks) + Len(body.tasks) <= cap
       /\ UNCHANGED agents
       /\ IF ~requireRole("admin", user)
          THEN /\ last' = [req EXCEPT !.code = 403, !.message = OnlyRole("admin")]
               /\ UNCHANGED tasks
          ELSE IF NoTasks(body)
          THEN /\ last' = [req EXCEPT !.code = 400, !.message = "No tasks provided."]
               /\ UNCHANGED tasks
          ELSE IF \E k \in DOMAIN body.tasks : body.tasks[k].isNull
          THEN \* task.firstName of null throws: caught, 500
               /\ last' = [req EXCEPT !.code = 500, !.message = "Server error"]
               /\ UNCHANGED tasks
          ELSE LET processedTasks == [k \in DOMAIN body.tasks |-> Processed(body.tasks[k])]
                   inserted == InsertMany(tasks, processedTasks)
               IN \* the collection is what insertMany left: the catch undoes nothing
                  /\ tasks' = inserted.coll
                  /\ IF inserted.ok
                     THEN last' = [req EXCEPT !.code = 201,
                                              !.message = "Tasks saved successfully",
                                              !.count = Len(processedTasks)]
                     ELSE last' = [req EXCEPT !.code = 500, !.message = "Server error"]

ConfirmDraft(entries, cap) ==
    /\ Idle
    /\ UNCHANGED <<calls, bell>>
    /\ \E user \in Callers : \E body \in Bodies(entries, MaxBatch) :
          confirmDraft(user, body, cap)

(***************************************************************************)
(* PATCH /api/tasks/admin/:id/status and /agent/:id/status:                *)
(* updateTaskStatus.  A task's id is its position in the collection;       *)
(* Len(tasks) + 1 is a well-formed id of no task.                          *)
(***************************************************************************)
\* Task.findById
TaskExists(id) == id \in DOMAIN tasks

\* String(task.assignedTo) === String(req.user.id) || String(task.agentId) === String(req.user.id)
IsAssigned(task, user) == task.assignedTo = user.id \/ task.agentId = user.id

\* a permission check that forgets the role
PermittedAssignedOnly(task, user) == IsAssigned(task, user)

\* the permission check: an agent must be assigned, an admin passes
Permitted(task, user) == user.role = "agent" => IsAssigned(task, user)

\* a write that treats completed and failed as terminal
SetStatusForward(task, status) ==
    IF task.status \in {"completed", "failed"} THEN task
    ELSE [task EXCEPT !.status = status]

\* task.status = status; await task.save()
SetStatus(task, status) == [task EXCEPT !.status = status]

\* a reassignment that also sends the task back to pending
SetAssigneeReset(task, newAgentId) ==
    [task EXCEPT !.assignedTo = newAgentId, !.status = "pending"]

\* task.assignedTo = newAgentId; await task.save()
SetAssignee(task, newAgentId) == [task EXCEPT !.assignedTo = newAgentId]

\* a list that lets one more value through
allowedStatusesWide == {"pending", "in-progress", "completed", "failed", "done"}

\* const allowedStatuses of the handler
allowedStatuses == {"pending", "in-progress", "completed", "failed"}

updateTaskStatus(route, user, id, status) ==
    LET req == [NoLast EXCEPT !.op = "updateTaskStatus", !.user = user,
                              !.route = route, !.taskId = id, !.status = status]
    IN /\ UNCHANGED agents
       /\ IF ~requireRole(route, user)
          THEN /\ last' = [req EXCEPT !.code = 403, !.message = OnlyRole(route)]
               /\ UNCHANGED tasks
          ELSE IF status \notin allowedStatuses
          THEN /\ last' = [req EXCEPT !.code = 400, !.message = "Invalid status value"]
               /\ UNCHANGED tasks
          ELSE IF ~TaskExists(id)
          THEN /\ last' = [req EXCEPT !.code = 404, !.message = "Task not found"]
               /\ UNCHANGED tasks
          ELSE IF ~Permitted(tasks[id], user)
          THEN /\ last' = [req EXCEPT !.code = 403, !.found = tasks[id].status,
                                      !.message = "You are not assigned to this task"]
               /\ UNCHANGED tasks
          ELSE IF status \notin AllowedStatuses
          THEN \* task.save() rejects a value outside the schema's enum: caught, 500
               /\ last' = [req EXCEPT !.code = 500, !.found = tasks[id].status,
                                      !.message = "Server error"]
               /\ UNCHANGED tasks
          ELSE /\ tasks' = [tasks EXCEPT ![id] = SetStatus(tasks[id], status)]
               /\ last' = [req EXCEPT !.code = 200, !.found = tasks[id].status,
                                      !.message = "Task status updated successfully"]

StatusInputs == AllowedStatuses \cup {"done"}

UpdateTaskStatus ==
    /\ Idle
    /\ UNCHANGED <<calls, bell>>
    /\ \E route \in {"admin", "agent"} : \E user \in Callers :
          \E id \in 1..(Len(tasks) + 1) : \E status \in StatusInputs :
              updateTaskStatus(route, user, id, status)

(***************************************************************************)
(* PATCH /api/tasks/task/:id/assign: reassignTask.                         *)
(***************************************************************************)
reassignTask(user, id, newAgentId) ==
    LET req == [NoLast EXCEPT !.op = "reassignTask", !.user = user,
                              !.taskId = id, !.newAgentId = newAgentId]
    IN /\ UNCHANGED agents
       /\ IF ~requireRole("admin", user)
          THEN /\ last' = [req EXCEPT !.code = 403, !.message = OnlyRole("admin")]
               /\ UNCHANGED tasks
          ELSE IF ~TaskExists(id)
          THEN /\ last' = [req EXCEPT !.code = 404, !.message = "Task not found"]
               /\ UNCHANGED tasks
          ELSE IF ~CastsToObjectId(newAgentId)
          THEN \* task.save() rejects the value: caught, 500
               /\ last' = [req EXCEPT !.code = 500, !.found = tasks[id].status,
                                      !.message = "Server error"]
               /\ UNCHANGED tasks
          ELSE /\ tasks' = [tasks EXCEPT ![id] = SetAssignee(tasks[id], newAgentId)]
               /\ last' = [req EXCEPT !.code = 200, !.found = tasks[id].status,
                                      !.message = "Task reassigned successfully"]

ReassignTask(targets) ==
    /\ Idle
    /\ UNCHANGED <<calls, bell>>
    /\ \E user \in Callers : \E id \in 1..(Len(tasks) + 1) :
          \E newAgentId \in targets :
              reassignTask(user, id, newAgentId)

(***************************************************************************)
(* PATCH /api/tasks/task/finalize: finalizeAssignments.                    *)
(***************************************************************************)
\* a sweep that flips the flag of every task
updateManyToggle(coll) ==
    [k \in DOMAIN coll |-> [coll[k] EXCEPT !.isFinalized = ~coll[k].isFinalized]]

\* Task.updateMany({ isFinalized: false }, { isFinalized: true })
updateManyFinalize(coll) ==
    [k \in DOMAIN coll |->
        IF coll[k].isFinalized = FALSE
        THEN [coll[k] EXCEPT !.isFinalized = TRUE]
        ELSE coll[k]]

finalizeAssignments(user) ==
    LET req == [NoLast EXCEPT !.op = "finalizeAssignments", !.user = user]
    IN /\ UNCHANGED agents
       /\ IF ~requireRole("admin", user)
          THEN /\ last' = [req EXCEPT !.code = 403, !.message = OnlyRole("admin")]
               /\ UNCHANGED tasks
          ELSE /\ tasks' = updateManyFinalize(tasks)
               /\ last' = [req EXCEPT !.code = 200,
                                      !.message = "All tasks finalized successfully"]

FinalizeAssignments ==
    /\ Idle
    /\ UNCHANGED <<calls, bell>>
    /\ \E user \in Callers : finalizeAssignments(user)

(***************************************************************************)
(* The reads: GET /api/tasks/my (getAgentTasks), /my-tasks (getMyTasks)    *)
(* and /task (getTasks).                                                   *)
(***************************************************************************)
\* Task.find(filter): the ids of the tasks the filter matches, the filter
\* given as its verdict on each stored task
Find(matches) == {i \in DOMAIN tasks : matches[i]}

\* req.user._id: the token's payload is { id, role } and has no _id
UserUnderscoreId(user) == None

getAgentTasks(user) ==
    LET req == [NoLast EXCEPT !.op = "getAgentTasks", !.user = user]
    IN /\ UNCHANGED <<agents, tasks>>
       /\ IF ~requireRole("agent", user)
          THEN last' = [req EXCEPT !.code = 403, !.message = OnlyRole("agent")]
          ELSE last' = [req EXCEPT !.code = 200,
                           !.seen = Find([i \in DOMAIN tasks |->
                                               \/ tasks[i].assignedTo = user.id
                                               \/ tasks[i].agentId = user.id])]

\* the filter { assignedTo: undefined } matches the tasks that have no assignedTo
getMyTasks(user) ==
    LET req == [NoLast EXCEPT !.op = "getMyTasks", !.user = user]
    IN /\ UNCHANGED <<agents, tasks>>
       /\ IF ~requireRole("agent", user)
          THEN last' = [req EXCEPT !.code = 403, !.message = OnlyRole("agent")]
          ELSE last' = [req EXCEPT !.code = 200,
                           !.message = "Tasks fetched successfully",
                           !.seen = Find([i \in DOMAIN tasks |->
                                       tasks[i].assignedTo = UserUnderscoreId(user)])]

getTasks(user) ==
    LET req == [NoLast EXCEPT !.op = "getTasks", !.user = user]
    IN /\ UNCHANGED <<agents, tasks>>
       /\ IF user.role = "admin"
          THEN last' = [req EXCEPT !.code = 200, !.seen = DOMAIN tasks]
          ELSE last' = [req EXCEPT !.code = 200,
                           !.seen = Find([i \in DOMAIN tasks |->
                                               /\ tasks[i].assignedTo = user.id
                                               /\ tasks[i].isFinalized = TRUE])]

GetAgentTasks ==
    /\ Idle
    /\ UNCHANGED <<calls, bell>>
    /\ \E user \in Callers : getAgentTasks(user)

GetMyTasks ==
    /\ Idle
    /\ UNCHANGED <<calls, bell>>
    /\ \E user \in Callers : getMyTasks(user)

GetTasks ==
    /\ Idle
    /\ UNCHANGED <<calls, bell>>
    /\ \E user \in Callers : getTasks(user)

(***************************************************************************)
(* The handlers step by step.  Node runs a handler from one await to the   *)
(* next without interruption, and the database applies one operation at a  *)
(* time: a step is a database operation together with the code that runs   *)
(* on its result, up to the next await or to the response.  Return hands   *)
(* the response to the client and frees the slot.                          *)
(***************************************************************************)
Return ==
    \E c \in Slots :
        /\ calls[c].pc = "done"
        /\ calls' = [calls EXCEPT ![c] = NoCall]
        /\ UNCHANGED <<agents, tasks, last, bell>>

\* a save under optimisticConcurrency: refused when the stored document is
\* no longer the one loaded
SaveAllowedVersioned(stored, loaded) == stored = loaded

\* task.save() of a loaded document: the schema sets no optimisticConcurrency
\* and has no array path, so no version is compared
SaveAllowed(stored, loaded) == TRUE

\* updateTaskStatus up to `await task.save()`: the status check, findById
\* and the permission check
updateStatusFind(c, route, user, id, status) ==
    LET req == [NoCall EXCEPT !.op = "updateTaskStatus", !.user = user,
                              !.route = route, !.taskId = id, !.status = status]
        answer(code, message) ==
            [req EXCEPT !.pc = "done", !.code = code, !.message = message]
    IN /\ calls[c].pc = "free"
       /\ UNCHANGED <<agents, tasks, last, bell>>
       /\ IF ~requireRole(route, user)
          THEN calls' = [calls EXCEPT ![c] = answer(403, OnlyRole(route))]
          ELSE IF status \notin allowedStatuses
          THEN calls' = [calls EXCEPT ![c] = answer(400, "Invalid status value")]
          ELSE IF ~TaskExists(id)
          THEN calls' = [calls EXCEPT ![c] = answer(404, "Task not found")]
          ELSE IF ~Permitted(tasks[id], user)
          THEN calls' = [calls EXCEPT ![c] =
                            answer(403, "You are not assigned to this task")]
          ELSE calls' = [calls EXCEPT ![c] =
                            [req EXCEPT !.pc = "save", !.doc = tasks[id]]]

\* task.save() of updateTaskStatus and the response: the document is
\* validated, and the paths that differ from the loaded document (status, if
\* at all) are written to the stored one
updateStatusSave(c) ==
    LET call == calls[c]
        id == call.taskId
        answer(code, message) ==
            [call EXCEPT !.pc = "done", !.code = code, !.message = message]
    IN /\ call.pc = "save"
       /\ call.op = "updateTaskStatus"
       /\ UNCHANGED <<agents, last, bell>>
       /\ IF call.status \notin AllowedStatuses \/ ~SaveAllowed(tasks[id], call.doc)
          THEN /\ calls' = [calls EXCEPT ![c] = answer(500, "Server error")]
               /\ UNCHANGED tasks
          ELSE /\ calls' = [calls EXCEPT ![c] =
                               answer(200, "Task status updated successfully")]
               /\ IF call.status # call.doc.status
                  THEN tasks' = [tasks EXCEPT ![id] = SetStatus(tasks[id], call.status)]
                  ELSE UNCHANGED tasks

\* reassignTask up to `await task.save()`
reassignFind(c, user, id, newAgentId) ==
    LET req == [NoCall EXCEPT !.op = "reassignTask", !.user = user,
                              !.taskId = id, !.newAgentId = newAgentId]
        answer(code, message) ==
            [req EXCEPT !.pc = "done", !.code = code, !.message = message]
    IN /\ calls[c].pc = "free"
       /\ UNCHANGED <<agents, tasks, last, bell>>
       /\ IF ~requireRole("admin", user)
          THEN calls' = [calls EXCEPT ![c] = answer(403, OnlyRole("admin"))]
          ELSE IF ~TaskExists(id)
          THEN calls' = [calls EXCEPT ![c] = answer(404, "Task not found")]
          ELSE calls' = [calls EXCEPT ![c] =
                            [req EXCEPT !.pc = "save", !.doc = tasks[id]]]

\* task.save() of reassignTask and the response
reassignSave(c) ==
    LET call == calls[c]
        id == call.taskId
        answer(code, message) ==
            [call EXCEPT !.pc = "done", !.code = code, !.message = message]
    IN /\ call.pc = "save"
       /\ call.op = "reassignTask"
       /\ UNCHANGED <<agents, last, bell>>
       /\ IF ~CastsToObjectId(call.newAgentId) \/ ~SaveAllowed(tasks[id], call.doc)
          THEN /\ calls' = [calls EXCEPT ![c] = answer(500, "Server error")]
               /\ UNCHANGED tasks
          ELSE /\ calls' = [calls EXCEPT ![c] =
                               answer(200, "Task reassigned successfully")]
               /\ IF call.newAgentId # call.doc.assignedTo
                  THEN tasks' = [tasks EXCEPT ![id] =
                                    SetAssignee(tasks[id], call.newAgentId)]
                  ELSE UNCHANGED tasks

\* a handler that looks the agents up again when the stream has ended
AgentsAtEndFresh(snapshot, current) == current

\* the agents the 'end' callback pairs over: the array bound to the local
\* `agents` before the stream was set up; the callback reads no collection
AgentsAtEnd(snapshot, current) == snapshot

\* draftUpload up to the response, or, for a CSV file of an admin with
\* agents registered, up to the piping of the stream: the check of req.file,
\* Agent.find(), and for a spreadsheet the parsing and pairing, which run
\* without an await
uploadFind(c, user, file) ==
    LET req == [NoCall EXCEPT !.op = "draftUpload", !.user = user, !.file = file]
        answer == draftAnswer(agents, file)
    IN /\ calls[c].pc = "free"
       /\ UNCHANGED <<agents, last, bell>>
       /\ IF ~requireRole("admin", user)
          THEN /\ calls' = [calls EXCEPT ![c] =
                               [req EXCEPT !.pc = "done", !.code = 403,
                                           !.message = OnlyRole("admin")]]
               /\ UNCHANGED tasks
          ELSE IF answer.code = 200 /\ file.mimetype = CsvType
          THEN /\ calls' = [calls EXCEPT ![c] =
                               [req EXCEPT !.pc = "parse", !.snapshot = agents]]
               /\ UNCHANGED tasks
          ELSE /\ calls' = [calls EXCEPT ![c] =
                               [req EXCEPT !.pc = "done", !.snapshot = agents,
                                           !.code = answer.code,
                                           !.message = answer.message,
                                           !.draft = answer.draft]]
               /\ tasks' = TasksAfterUpload(tasks, answer.draft)

\* the 'end' event of the CSV stream: the rows are paired and the draft sent
uploadEnd(c) ==
    LET call == calls[c]
        answer == draftAnswer(AgentsAtEnd(call.snapshot, agents), call.file)
    IN /\ call.pc = "parse"
       /\ UNCHANGED <<agents, last, bell>>
       /\ calls' = [calls EXCEPT ![c] =
                       [call EXCEPT !.pc = "done", !.code = answer.code,
                                    !.message = answer.message,
                                    !.draft = answer.draft]]
       /\ tasks' = TasksAfterUpload(tasks, answer.draft)

UploadFind(files) ==
    \E c \in Slots : \E user \in Callers : \E file \in files :
        uploadFind(c, user, file)

UploadEnd == \E c \in Slots : uploadEnd(c)

RaceStatuses == {"in-progress", "completed"}

RaceTargets == {"W2"}

UpdateStatusFind ==
    \E c \in Slots : \E user \in Callers : \E id \in 1..MaxRaced :
        \E status \in RaceStatuses :
            updateStatusFind(c, user.role, user, id, status)

UpdateStatusSave == \E c \in Slots : updateStatusSave(c)

ReassignFind ==
    \E c \in Slots : \E user \in Callers : \E id \in 1..MaxRaced :
        \E newAgentId \in RaceTargets :
            reassignFind(c, user, id, newAgentId)

ReassignSave == \E c \in Slots : reassignSave(c)

(***************************************************************************)
(* The client's NotificationProvider.  A notification is its id and its    *)
(* read flag; the id of the k-th notification created is k, and 0 is an    *)
(* id of no notification.                                                  *)
(***************************************************************************)
Max(a, b) == IF a >= b THEN a ELSE b

Min(a, b) == IF a <= b THEN a ELSE b

\* prev.slice(0, n)
Slice(prev, n) == SubSeq(prev, 1, Min(Len(prev), n))

AddNotification ==
    /\ issued < MaxIssued
    /\ LET newNotification == [id |-> issued + 1, read |-> FALSE]
       IN notifications' = <<newNotification>> \o Slice(notifications, MaxKept - 1)
    /\ unreadCount' = unreadCount + 1
    /\ issued' = issued + 1
    /\ UNCHANGED <<agents, tasks, last, calls>>

markAsRead(notificationId) ==
    /\ notifications' =
          [k \in DOMAIN notifications |->
              IF notifications[k].id = notificationId
              THEN [notifications[k] EXCEPT !.read = TRUE]
              ELSE notifications[k]]
    /\ unreadCount' = Max(0, unreadCount - 1)
    /\ UNCHANGED <<agents, tasks, last, calls, issued>>

MarkAsRead == \E notificationId \in 0..issued : markAsRead(notificationId)

MarkAllAsRead ==
    /\ notifications' =
          [k \in DOMAIN notifications |-> [notifications[k] EXCEPT !.read = TRUE]]
    /\ unreadCount' = 0
    /\ UNCHANGED <<agents, tasks, last, calls, issued>>

clearNotification(notificationId) ==
    LET found == {k \in DOMAIN notifications : notifications[k].id = notificationId}
    IN /\ notifications' =
             SelectSeq(notifications, LAMBDA n : n.id # notificationId)
       /\ IF \E k \in found : ~notifications[k].read
          THEN unreadCount' = Max(0, unreadCount - 1)
          ELSE unreadCount' = unreadCount
       /\ UNCHANGED <<agents, tasks, last, calls, issued>>

ClearNotification == \E notificationId \in 0..issued : clearNotification(notificationId)

ClearAllNotifications ==
    /\ notifications' = <<>>
    /\ unreadCount' = 0
    /\ UNCHANGED <<agents, tasks, last, calls, issued>>

NextBell ==
    \/ AddNotification
    \/ MarkAsRead
    \/ MarkAllAsRead
    \/ ClearNotification
    \/ ClearAllNotifications

SpecBell == Init /\ [][NextBell]_vars

(***************************************************************************)
(* Input sets.                                                             *)
(***************************************************************************)
\* entries of a confirm payload: the shapes a client can send
CommitEntries ==
    { DraftEntry(<<"a">>, <<"5">>, "W1"),
      [DraftEntry(<<"b">>, <<"6">>, "W2") EXCEPT
            !.notes = Str(<<"n">>), !.status = "completed", !.isFinalized = TRUE],
      DraftEntry(<<"a">>, <<"5">>, GhostId),
      DraftEntry(<<"a">>, <<"5">>, BadId),
      Entry(Str(<<"a">>), Str(<<"5">>), Undef, None, "W1", "W2"),
      Entry(Str(<<"a">>), Str(<<"5">>), Undef, None, None, None),
      DraftEntry(<<>>, <<"5">>, "W1"),
      DraftEntry(<<" ">>, <<"5">>, "W1"),
      Entry(Str(<<"a">>), Undef, Undef, "W1", "W1", "W1"),
      Entry(Str(<<"a">>), Str(<<>>), Undef, "W2", "W2", "W2"),
      NullEntry }

\* entries of the drafts the lifecycle runs start from
DraftedEntries ==
    { DraftEntry(<<"a">>, <<"5">>, "W1"),
      DraftEntry(<<"a">>, <<"5">>, "W2") }

ReassignTargets == {"W1", "W2", GhostId, BadId}

\* the agents of the commit and lifecycle runs
TwoAgents == SubSeq(AgentPool, 1, 2)

(***************************************************************************)
(* The commit step alone: agents are registered and drafts confirmed.      *)
(***************************************************************************)
NextCommit ==
    \/ AddAgent(TwoAgents)
    \/ ConfirmDraft(CommitEntries, MaxStored)
    \/ Deliver

SpecCommit == Init /\ [][NextCommit]_vars

(***************************************************************************)
(* Repeated commits: drafts as the upload returned them are confirmed,     *)
(* again and again.                                                        *)
(***************************************************************************)
NextRetry ==
    \/ AddAgent(TwoAgents)
    \/ ConfirmDraft(DraftedEntries, MaxConfirmed)
    \/ Deliver

SpecRetry == Init /\ [][NextRetry]_vars

(***************************************************************************)
(* The task lifecycle: drafts are confirmed, statuses updated and tasks    *)
(* reassigned, by the admin and by the registered agents.                  *)
(***************************************************************************)
NextLifecycle ==
    \/ AddAgent(TwoAgents)
    \/ ConfirmDraft(DraftedEntries, MaxTasks)
    \/ UpdateTaskStatus
    \/ ReassignTask(ReassignTargets)
    \/ Deliver

SpecLifecycle == Init /\ [][NextLifecycle]_vars

(***************************************************************************)
(* The whole program: every handler, called by the admin and by the        *)
(* registered agents, over a sample of files, one draft entry and two      *)
(* reassignment targets.                                                   *)
(***************************************************************************)
SampleFiles ==
    { [present |-> FALSE, mimetype |-> "", rows |-> <<>>],
      [present |-> TRUE, mimetype |-> CsvType,
       rows |-> <<Row(Str(<<"b">>), Str(<<"6">>), Str(<<" ", "n", " ">>), Str(<<"x">>))>>],
      [present |-> TRUE, mimetype |-> XlsxType, rows |-> <<>>],
      [present |-> TRUE, mimetype |-> XlsType,
       rows |-> <<Row(Str(<<"b">>), Num(70), Num(0), Undef),
                  Row(Str(<<" ">>), Str(<<"5">>), Undef, Undef)>>] }

SampleEntries == { DraftEntry(<<"a">>, <<"5">>, "W1") }

SampleTargets == {"W2", BadId}

Next ==
    \/ AddAgent(TwoAgents)
    \/ DraftUpload(SampleFiles)
    \/ ConfirmDraft(SampleEntries, MaxTasks)
    \/ UpdateTaskStatus
    \/ ReassignTask(SampleTargets)
    \/ FinalizeAssignments
    \/ GetAgentTasks
    \/ GetMyTasks
    \/ GetTasks
    \/ Deliver

Spec == Init /\ [][Next]_vars

(***************************************************************************)
(* Interleaved status updates and reassignments of the committed tasks.    *)
(***************************************************************************)
NextRace ==
    \/ AddAgent(TwoAgents)
    \/ ConfirmDraft(SampleEntries, MaxRaced)
    \/ Deliver
    \/ UpdateStatusFind
    \/ UpdateStatusSave
    \/ ReassignFind
    \/ ReassignSave
    \/ Return

SpecRace == Init /\ [][NextRace]_vars

(***************************************************************************)
(* Uploads served while agents are being registered.                       *)
(***************************************************************************)
SnapshotFiles ==
    { [present |-> FALSE, mimetype |-> "", rows |-> <<>>],
      [present |-> TRUE, mimetype |-> CsvType,
       rows |-> <<Row(Str(<<"a">>), Str(<<"5">>), Undef, Undef),
                  Row(Str(<<"b">>), Str(<<"6">>), Str(<<"n">>), Undef),
                  Row(Str(<<"c">>), Str(<<"7">>), Undef, Undef)>>],
      [present |-> TRUE, mimetype |-> CsvType,
       rows |-> <<Row(Str(<<"a">>), Undef, Undef, Undef)>>],
      [present |-> TRUE, mimetype |-> XlsxType,
       rows |-> <<Row(Str(<<"a">>), Num(5), Undef, Undef),
                  Row(Str(<<"b">>), Num(6), Undef, Undef)>>] }

NextSnapshot ==
    \/ AddAgent(AgentPool)
    \/ Deliver
    \/ UploadFind(SnapshotFiles)
    \/ UploadEnd
    \/ Return

SpecSnapshot == Init /\ [][NextSnapshot]_vars

(***************************************************************************)
(* Properties.                                                             *)
(***************************************************************************)
UploadDone == last.op = "draftUpload" /\ last.code = 200

\* the number of rows of the upload in flight that pass the handler's row test
AcceptedCount == Cardinality({i \in DOMAIN last.rows : RowAccepted(last.rows[i])})

\* C1: a successful upload's draft has one entry per accepted row, the first
\* M entries carry the ids of the M workers in the order of the worker list,
\* and every later entry carries the id of the entry M places before it
\* (entry i carries worker i mod M), in each of its three worker references,
\* for the CSV and for the spreadsheet path.
C1_PositionalPairing ==
    UploadDone =>
        LET M == Len(agents)
            draft == last.draft
        IN /\ M >= 1
           /\ Len(draft) = AcceptedCount
           /\ \A k \in DOMAIN draft :
                /\ k <= M => draft[k].agentId = agents[k]._id
                /\ k > M => draft[k].agentId = draft[k - M].agentId
                /\ draft[k].assignedTo = draft[k].agentId
                /\ draft[k].draftAssignedTo.id = draft[k].agentId

\* C1 witness: a CSV upload of three accepted rows over two workers
C1_Witness ==
    /\ UploadDone
    /\ last.kind = CsvType
    /\ Len(agents) = 2
    /\ Len(last.draft) = 3

\* whether a cell holds a value that is non-empty after trimming
FieldPresent(v) == v.t # "undefined" /\ Trim(ToStr(v)) # <<>>

RowComplete(row) == FieldPresent(row.FirstName) /\ FieldPresent(row.Phone)

\* C9: in a successful upload no draft entry has an empty person or phone
\* field (a row whose field is missing or blank after trimming is left out),
\* and every row with both fields non-empty after trimming is in the draft,
\* extra columns or not.
C9_RowFiltering ==
    UploadDone =>
        /\ \A k \in DOMAIN last.draft :
              last.draft[k].firstName # <<>> /\ last.draft[k].phone # <<>>
        /\ Len(last.draft) =
              Cardinality({i \in DOMAIN last.rows : RowComplete(last.rows[i])})

CommitDone == last.op = "confirmDraft" /\ last.code = 201

\* the tasks the commit in flight created: the last `count` of the collection
CreatedIds == (Len(tasks) - last.count + 1)..Len(tasks)

\* C3: with at least one worker registered, every task a successful commit
\* created is assigned to a worker of the worker collection as it is at that
\* commit, whatever worker reference the payload proposed.
C3_CommitRevalidatesWorker ==
    (CommitDone /\ Len(agents) >= 1) =>
        \A i \in CreatedIds : tasks[i].assignedTo \in AgentIdsOf(agents)

\* whether a payload entry would pass the schema on its own
EntryValid(e) == ~e.isNull /\ TaskValid(Processed(e))

\* C4: a commit leaves the tasks collection as it was, or appends one task
\* per entry of its payload, in the payload's order; never some of them.
C4_CommitAtomic ==
    [][last'.op = "confirmDraft" =>
          \/ tasks' = tasks
          \/ /\ Len(tasks') = Len(tasks) + Len(last'.payload)
             /\ SubSeq(tasks', 1, Len(tasks)) = tasks
             /\ \A k \in DOMAIN last'.payload :
                   /\ tasks'[Len(tasks) + k].firstName = ToStr(last'.payload[k].firstName)
                   /\ tasks'[Len(tasks) + k].phone = ToStr(last'.payload[k].phone)]_vars

\* C4 witness: a commit of a batch holding a valid and an invalid entry was
\* refused, with tasks of an earlier commit in the collection
C4_Witness ==
    /\ last.op = "confirmDraft"
    /\ last.code = 500
    /\ \E j, k \in DOMAIN last.payload :
          EntryValid(last.payload[j]) /\ ~EntryValid(last.payload[k])
    /\ Len(tasks) > 0

\* C10: every stored task has a non-empty firstName and a non-empty phone.
C10_NoEmptyContact ==
    \A i \in DOMAIN tasks : tasks[i].firstName # <<>> /\ tasks[i].phone # <<>>

\* C10 witness: a commit whose payload held an entry with an empty firstName
\* or an empty phone was answered, with tasks in the collection
C10_Witness ==
    /\ last.op = "confirmDraft"
    /\ last.code \in {201, 500}
    /\ \E k \in DOMAIN last.payload :
          /\ ~last.payload[k].isNull
          /\ \/ last.payload[k].firstName = Str(<<>>)
             \/ last.payload[k].phone = Str(<<>>)
    /\ Len(tasks) > 0

\* an agent's status update, by the agent route, of an existing task
AgentUpdate(l) ==
    /\ l.op = "updateTaskStatus"
    /\ l.route = "agent"
    /\ l.user.role = "agent"
    /\ l.status \in AllowedStatuses
    /\ TaskExists(l.taskId)

\* C2: an agent's status update of an existing task whose assigned worker
\* (assignedTo) is another registered worker is refused with 403 and changes
\* no task.
C2_RoleGatedUpdate ==
    [][(/\ AgentUpdate(last')
        /\ tasks[last'.taskId].assignedTo \in AgentIdsOf(agents)
        /\ tasks[last'.taskId].assignedTo # last'.user.id)
          => (last'.code = 403 /\ tasks' = tasks)]_vars

\* an admin's status update, by the admin route, of an existing task
AdminUpdate(l) ==
    /\ l.op = "updateTaskStatus"
    /\ l.route = "admin"
    /\ l.user.role = "admin"
    /\ l.status \in AllowedStatuses
    /\ TaskExists(l.taskId)

\* C5 as claimed: a task that is completed or failed keeps its status.
C5_TerminalStates ==
    [][\A i \in DOMAIN tasks :
          tasks[i].status \in {"completed", "failed"}
              => tasks'[i].status = tasks[i].status]_vars

\* C5 as amended: a task's status changes only by a successful status update
\* of that task, to the requested one of the four values; and completed and
\* failed are not terminal: an admin's update of a completed or failed task
\* succeeds and sets the requested status.
C5_StatusChanges ==
    [][/\ \A i \in DOMAIN tasks :
            tasks'[i].status # tasks[i].status =>
                /\ last'.op = "updateTaskStatus"
                /\ last'.code = 200
                /\ last'.taskId = i
                /\ last'.status \in AllowedStatuses
                /\ tasks'[i].status = last'.status
       /\ (AdminUpdate(last') /\ tasks[last'.taskId].status \in {"completed", "failed"})
              => (last'.code = 200 /\ tasks'[last'.taskId].status = last'.status)]_vars

\* C5 witness: an update has moved a completed task back to pending
C5_Witness ==
    /\ last.op = "updateTaskStatus"
    /\ last.code = 200
    /\ last.found = "completed"
    /\ tasks[last.taskId].status = "pending"

\* C6: an admin's update of an existing task to any of the four statuses is
\* answered 200 and leaves the task with that status.
C6_AdminPermissive ==
    AdminUpdate(last) =>
        (last.code = 200 /\ tasks[last.taskId].status = last.status)

\* C6 witness: the admin moved a pending task of an agent straight to completed
C6_Witness ==
    /\ AdminUpdate(last)
    /\ last.found = "pending"
    /\ last.status = "completed"
    /\ tasks[last.taskId].assignedTo \in AgentIdsOf(agents)

\* every task but the one named by id is as it was
OthersKept(id) ==
    /\ Len(tasks') = Len(tasks)
    /\ \A i \in DOMAIN tasks : i # id => tasks'[i] = tasks[i]

\* C7: a successful reassignment keeps the task's status, a successful status
\* update keeps the task's worker references, and both keep every other task.
C7_ReassignIsolation ==
    [][/\ (last'.op = "reassignTask" /\ last'.code = 200) =>
            /\ OthersKept(last'.taskId)
            /\ tasks'[last'.taskId].status = tasks[last'.taskId].status
       /\ (last'.op = "updateTaskStatus" /\ last'.code = 200) =>
            /\ OthersKept(last'.taskId)
            /\ tasks'[last'.taskId].assignedTo = tasks[last'.taskId].assignedTo
            /\ tasks'[last'.taskId].agentId = tasks[last'.taskId].agentId]_vars

\* C7 witness: one of two tasks, in progress, was reassigned to another worker
C7_Witness ==
    /\ last.op = "reassignTask"
    /\ last.code = 200
    /\ Len(tasks) = 2
    /\ last.found = "in-progress"
    /\ tasks[last.taskId].assignedTo # tasks[last.taskId].agentId

\* C8: an admin's reassignment of an existing task, assigned to a registered
\* worker, to an id that is not a worker of the collection is refused and
\* changes no task.
C8_ReassignRejectsInvalid ==
    [][(/\ last'.op = "reassignTask"
        /\ last'.user.role = "admin"
        /\ TaskExists(last'.taskId)
        /\ tasks[last'.taskId].assignedTo \in AgentIdsOf(agents)
        /\ last'.newAgentId \notin AgentIdsOf(agents))
          => (last'.code # 200 /\ tasks' = tasks)]_vars

\* C11: every task a successful commit created has status pending and is not
\* finalized, whatever status and isFinalized its payload entry carried.
C11_CreatedPending ==
    CommitDone =>
        \A i \in CreatedIds :
            tasks[i].status = "pending" /\ tasks[i].isFinalized = FALSE

\* C11 witness: a commit succeeded whose payload held an entry sent as
\* completed and finalized
C11_Witness ==
    /\ CommitDone
    /\ \E k \in DOMAIN last.payload :
          last.payload[k].status = "completed" /\ last.payload[k].isFinalized

\* C12: an admin's commit of a non-empty payload of valid entries, each
\* carrying a proposed worker id, made while the agents collection is empty,
\* is answered with an error and creates no task.
C12_CommitNoWorkersGuard ==
    [][(/\ last'.op = "confirmDraft"
        /\ last'.user.role = "admin"
        /\ Len(last'.payload) > 0
        /\ \A k \in DOMAIN last'.payload :
              EntryValid(last'.payload[k]) /\ last'.payload[k].draftId # None
        /\ Len(agents) = 0)
          => (last'.code >= 400 /\ tasks' = tasks)]_vars

\* an admin's upload of a file multer let in
AdminUpload == last.op = "draftUpload" /\ last.user.role = "admin" /\ last.kind # ""

\* C13: an admin's upload of a file of any of the three kinds and of any
\* number of rows, none included, made while the agents collection is empty,
\* is answered 400 'No agents available' and carries no draft.
C13_DraftNoWorkersGuard ==
    (AdminUpload /\ Len(agents) = 0) =>
        /\ last.code = 400
        /\ last.message = "No agents available"
        /\ last.draft = <<>>

\* C13 witness: a spreadsheet of two acceptable rows was uploaded with no
\* agent registered
C13_Witness ==
    /\ AdminUpload
    /\ Len(agents) = 0
    /\ last.kind = XlsType
    /\ AcceptedCount = 2

\* C14: an admin's upload of a file none of whose rows passes the row test,
\* made with at least one agent registered, is answered with an error, not
\* with a draft.
C14_EmptyUploadRejected ==
    (AdminUpload /\ Len(agents) >= 1 /\ AcceptedCount = 0) => last.code >= 400

\* C15: an upload, answered with a draft or with an error, leaves the tasks
\* and the agents collections exactly as they were; and the tasks collection
\* grows only by a successful commit.
C15_UploadNoDurableEffect ==
    [][/\ last'.op = "draftUpload" => (tasks' = tasks /\ agents' = agents)
       /\ Len(tasks') > Len(tasks) =>
            (last'.op = "confirmDraft" /\ last'.code = 201)]_vars

\* C15 witness: an upload was answered with a draft of two entries while the
\* collection held a task
C15_Witness ==
    /\ UploadDone
    /\ Len(last.draft) = 2
    /\ Len(tasks) > 0

\* C16: an admin's commit whose tasks value is an empty list, or no list, is
\* answered 400 'No tasks provided.' and leaves the tasks collection as it was.
C16_NoTasksProvided ==
    [][(/\ last'.op = "confirmDraft"
        /\ last'.user.role = "admin"
        /\ last'.payload = <<>>)
          => /\ last'.code = 400
             /\ last'.message = "No tasks provided."
             /\ tasks' = tasks]_vars

\* C16 witness: a commit was answered 'No tasks provided.' with tasks of an
\* earlier commit in the collection
C16_Witness ==
    /\ last.op = "confirmDraft"
    /\ last.message = "No tasks provided."
    /\ Len(tasks) > 0

\* the tasks a payload of valid entries is stored as
StoredPayload(payload) == [k \in DOMAIN payload |-> Stored(Processed(payload[k]))]

\* C17: an admin's commit of a non-empty payload of valid entries is answered
\* 201 with the payload's length and appends one task per entry, whatever the
\* collection already holds; so the same draft confirmed twice is stored twice.
C17_CommitNotIdempotent ==
    [][(/\ last'.op = "confirmDraft"
        /\ last'.user.role = "admin"
        /\ Len(last'.payload) > 0
        /\ \A k \in DOMAIN last'.payload : EntryValid(last'.payload[k]))
          => /\ last'.code = 201
             /\ last'.count = Len(last'.payload)
             /\ tasks' = tasks \o StoredPayload(last'.payload)]_vars

\* C17 witness: a draft of two different entries was confirmed twice in
\* succession, and the collection holds its two tasks twice
C17_Witness ==
    /\ CommitDone
    /\ Len(last.payload) = 2
    /\ last.payload[1] # last.payload[2]
    /\ tasks = StoredPayload(last.payload) \o StoredPayload(last.payload)

\* C18: a status update, by the caller's own route, with a status that is not
\* one of pending, in-progress, completed, failed is answered 400 'Invalid
\* status value' and changes no task; and every stored task's status is one
\* of the four.
C18_StatusValidity ==
    [][/\ (/\ last'.op = "updateTaskStatus"
           /\ last'.user.role = last'.route
           /\ last'.status \notin AllowedStatuses)
             => /\ last'.code = 400
                /\ last'.message = "Invalid status value"
                /\ tasks' = tasks
       /\ \A i \in DOMAIN tasks' : tasks'[i].status \in AllowedStatuses]_vars

\* C18 witness: the agent a task is assigned to asked for an unknown status
\* of it and was refused
C18_Witness ==
    /\ last.op = "updateTaskStatus"
    /\ last.status \notin AllowedStatuses
    /\ last.code = 400
    /\ last.user.role = "agent"
    /\ TaskExists(last.taskId)
    /\ tasks[last.taskId].assignedTo = last.user.id

\* C19: no request of an agent moves a task to failed: a task becomes failed
\* only by an admin's status update, and an agent's update to failed is not
\* answered 200.
C19_FailedAdminOnly ==
    [][/\ \A i \in DOMAIN tasks :
            (tasks'[i].status = "failed" /\ tasks[i].status # "failed")
                => last'.user.role = "admin"
       /\ (/\ last'.op = "updateTaskStatus"
           /\ last'.user.role = "agent"
           /\ last'.status = "failed") => last'.code # 200]_vars

AdminOnlyOps == {"reassignTask", "finalizeAssignments", "draftUpload", "confirmDraft"}

\* C20: a request of a caller who is not an admin never creates a task and
\* never changes a task's assigned worker or its isFinalized flag; and such a
\* caller's reassignment, finalization, upload or commit is answered 403 and
\* leaves every task as it was.
C20_AdminOnlyMutation ==
    [][last'.user.role # "admin" =>
          /\ last'.op \in AdminOnlyOps =>
                (last'.code = 403 /\ tasks' = tasks)
          /\ Len(tasks') = Len(tasks)
          /\ \A i \in DOMAIN tasks :
                /\ tasks'[i].assignedTo = tasks[i].assignedTo
                /\ tasks'[i].isFinalized = tasks[i].isFinalized]_vars

\* C20 witness: an agent asked to reassign its own, not finalized task to
\* another agent and was refused
C20_Witness ==
    /\ last.op = "reassignTask"
    /\ last.user.role = "agent"
    /\ last.code = 403
    /\ last.newAgentId = "W2"
    /\ TaskExists(last.taskId)
    /\ tasks[last.taskId].assignedTo = last.user.id
    /\ ~tasks[last.taskId].isFinalized

\* C21: an admin's finalization leaves every task finalized and reports the
\* number of tasks it changed (so a second one, right after, reports 0).
C21_FinalizeReportsCount ==
    [][(last'.op = "finalizeAssignments" /\ last'.user.role = "admin")
          => /\ last'.code = 200
             /\ \A i \in DOMAIN tasks' : tasks'[i].isFinalized
             /\ last'.count =
                   Cardinality({i \in DOMAIN tasks : ~tasks[i].isFinalized})]_vars

\* C22: a task that is finalized stays in the collection and stays finalized,
\* whatever request is served next.
C22_FinalizedOneWay ==
    [][\A i \in DOMAIN tasks :
          tasks[i].isFinalized => (i \in DOMAIN tasks' /\ tasks'[i].isFinalized)]_vars

\* C22 witness: the status of a finalized task was updated, with a task of a
\* later commit, not finalized, next to it
C22_Witness ==
    /\ last.op = "updateTaskStatus"
    /\ last.code = 200
    /\ Len(tasks) = 2
    /\ last.taskId = 1
    /\ tasks[1].isFinalized
    /\ ~tasks[2].isFinalized

\* the number of entries of the draft in flight proposed for worker w
ShareOf(w) ==
    Cardinality({k \in DOMAIN last.draft : last.draft[k].draftAssignedTo.id = w})

\* C23: in a successful upload's draft of N entries over M workers every
\* worker is proposed floor(N/M) or ceil(N/M) entries.
C23_BalancedDistribution ==
    UploadDone =>
        LET N == Len(last.draft)
            M == Len(agents)
        IN \A i \in DOMAIN agents :
              ShareOf(agents[i]._id) \in {N \div M, (N + M - 1) \div M}

\* C23 witness: a spreadsheet of three accepted rows over two workers
C23_Witness ==
    /\ UploadDone
    /\ last.kind = XlsxType
    /\ Len(agents) = 2
    /\ Len(last.draft) = 3
    /\ ShareOf("W1") = 2
    /\ ShareOf("W2") = 1

\* C24: a successful upload's draft lists the accepted rows in the file's
\* order, each with FirstName and Phone trimmed and with notes the trimmed
\* Notes value, or the empty string when the row has no Notes; and total is
\* the number of draft entries.
C24_ParserShape ==
    UploadDone =>
        LET accepted == SelectSeq(last.rows, RowAccepted)
        IN /\ Len(last.draft) = Len(accepted)
           /\ last.total = Len(last.draft)
           /\ \A k \in DOMAIN last.draft :
                /\ k \in DOMAIN accepted
                /\ last.draft[k].firstName = Trim(ToStr(accepted[k].FirstName))
                /\ last.draft[k].phone = Trim(ToStr(accepted[k].Phone))
                /\ last.draft[k].notes =
                      IF accepted[k].Notes.t = "undefined" THEN <<>>
                      ELSE Trim(ToStr(accepted[k].Notes))

\* C29: the two worker references of a stored task, when both name
\* registered agents, name the same agent (so the right to update a task
\* goes with its reassignment).
C29_ReferencesAgree ==
    \A i \in DOMAIN tasks :
        (/\ tasks[i].assignedTo \in AgentIdsOf(agents)
         /\ tasks[i].agentId \in AgentIdsOf(agents))
            => tasks[i].agentId = tasks[i].assignedTo

\* an agent's read, answered with a list of tasks
AgentRead ==
    /\ last.op \in {"getAgentTasks", "getMyTasks", "getTasks"}
    /\ last.user.role = "agent"
    /\ last.code = 200

\* C27: no read of an agent returns a task that is assigned to another
\* registered agent.
C27_AgentsSeeOwnTasks ==
    AgentRead =>
        \A i \in last.seen :
            tasks[i].assignedTo \in AgentIdsOf(agents)
                => tasks[i].assignedTo = last.user.id

\* C28: unreadCount is the number of notifications of the list that are not
\* read.
C28_BadgeAccuracy ==
    unreadCount =
        Cardinality({k \in DOMAIN notifications : ~notifications[k].read})


\* the request in slot c writes its document back in this step
Saves(c, op) ==
    /\ calls[c].pc = "save"
    /\ calls[c].op = op
    /\ calls'[c].pc = "done"

\* C25: concurrent status updates of one task are last-write-wins: every
\* update that passed the checks succeeds whatever was written to the task
\* since it was loaded; its write, applied when it asks for another status
\* than the one it loaded, leaves the task with the status it asked for, and
\* otherwise nothing is written, so that the task always has the status of
\* the last write applied and never one that no request asked for.
C25_LastWriteWins ==
    [][\A c \in Slots :
          Saves(c, "updateTaskStatus") =>
              /\ calls'[c].code = 200
              /\ IF calls[c].status # calls[c].doc.status
                 THEN tasks'[calls[c].taskId].status = calls[c].status
                 ELSE tasks' = tasks
              /\ \A id \in DOMAIN tasks :
                     id # calls[c].taskId => tasks'[id] = tasks[id]]_vars

\* two updates of one task, both loaded while it was pending and asking for
\* different statuses, have both succeeded and the task has the status of
\* the second
C25_Witness ==
    LET a == calls["first"]
        b == calls["second"]
    IN /\ a.pc = "done" /\ b.pc = "done"
       /\ a.op = "updateTaskStatus" /\ b.op = "updateTaskStatus"
       /\ a.code = 200 /\ b.code = 200
       /\ a.taskId = b.taskId
       /\ a.status # b.status
       /\ a.doc.status = "pending" /\ b.doc.status = "pending"
       /\ tasks[a.taskId].status = b.status

\* C30: an agent's status write is never applied to a task that, when it is
\* written, is assigned to another registered agent: the agent whom the
\* loaded document named as assignee still is the assignee at the write.
C30_NoStaleWrite ==
    [][\A c \in Slots :
          ( /\ Saves(c, "updateTaskStatus")
            /\ calls[c].user.role = "agent"
            /\ calls[c].doc.assignedTo = calls[c].user.id
            /\ tasks' # tasks )
          => ~ ( /\ tasks[calls[c].taskId].assignedTo # calls[c].user.id
                 /\ tasks[calls[c].taskId].assignedTo \in AgentIdsOf(agents) )]_vars


\* the entries of draft are paired with the agents of list in turn: the
\* entry of index i with the agent of index i mod M, M the length of list
PairedOver(draft, list) ==
    \A k \in DOMAIN draft :
        LET agent == list[((k - 1) % Len(list)) + 1]
        IN /\ draft[k].agentId = agent._id
           /\ draft[k].assignedTo = agent._id
           /\ draft[k].draftAssignedTo.id = agent._id

\* C26: an upload reads the agents once: what it keeps for the time the file
\* is parsed is the list as it was when the request looked it up, and every
\* entry of the draft it answers with is paired by i mod M over that one
\* list, whatever agents were added in between.
C26_ReadOnceSnapshot ==
    [][\A c \in Slots :
          /\ (calls[c].pc = "free" /\ calls'[c].pc = "parse")
                => calls'[c].snapshot = agents
          /\ (calls[c].pc = "parse" /\ calls'[c].pc = "done")
                => /\ calls'[c].code = 200
                   /\ Len(calls'[c].draft) =
                          Len(ParseRows(calls[c].file.rows, calls[c].file.mimetype))
                   /\ PairedOver(calls'[c].draft, calls[c].snapshot)
          /\ (calls[c].pc = "free" /\ calls'[c].pc = "done" /\ calls'[c].code = 200)
                => PairedOver(calls'[c].draft, agents)]_vars

\* a CSV upload has answered with a draft of several entries after an agent
\* was added while it was parsed, and the draft is not the one the longer
\* list would have given
C26_Witness ==
    \E c \in Slots :
        /\ calls[c].pc = "done"
        /\ calls[c].op = "draftUpload"
        /\ calls[c].code = 200
        /\ calls[c].file.mimetype = CsvType
        /\ Len(calls[c].draft) >= 2
        /\ Len(agents) > Len(calls[c].snapshot)
        /\ calls[c].draft #
              MakeDraft(ParseRows(calls[c].file.rows, CsvType), agents)

====
